---- MODULE Spec2Model ----
(***************************************************************************)
(* A model of vacances_scolaires_france.SchoolHolidayDates: the loading of *)
(* the holiday rows at construction, and the query methods of a            *)
(* constructed instance.                                                   *)
(***************************************************************************)
EXTENDS Integers, Sequences, FiniteSets, TLC

VARIABLES
    rows,       \* the rows csv.DictReader yields, in file order
    pc,         \* "loading" (inside __init__), "ready" (returned), "failed" (raised)
    i,          \* position of the `for row in reader` loop
    data,       \* self.data: date -> converted row
    min_year,   \* self.min_year (0 while the attribute is not yet set)
    max_year,   \* self.max_year (0 while the attribute is not yet set)
    err,        \* the exception __init__ raised, "none" otherwise
    ret         \* the call the caller has just made on the instance, with its outcome

vars == <<rows, pc, i, data, min_year, max_year, err, ret>>

\* ------------------------------------------------------------------ bounds
\* Longest input file, in rows.
MaxRows == 2
\* Longest list of dates handed to a query.
MaxSeq == 2

\* ------------------------------------------------------- calls and outcomes
\* No method has been called, or the caller has taken the outcome of its call.
NoCall == [op |-> "none"]
\* A method call, its arguments, and how it ended.
Called(op, args, r) == [op |-> op, args |-> args, status |-> r.status, value |-> r.value]
\* `return v` and `raise e`.
Return(v) == [status |-> "ok", value |-> v]
Raise(e) == [status |-> e, value |-> "none"]

\* ------------------------------------------------------------- the inputs
\* Date fields of the file, character by character.
S_2021_12_31 == <<"2","0","2","1","-","1","2","-","3","1">>
S_2023_01_01 == <<"2","0","2","3","-","0","1","-","0","1">>
S_2023_1_2 == <<"2","0","2","3","-","1","-","2">>
S_2023_13_01 == <<"2","0","2","3","-","1","3","-","0","1">>
DateStrs == {S_2021_12_31, S_2023_01_01, S_2023_1_2, S_2023_13_01}

NameStrs == {"", "Vacances de Noel"}

\* The three zone fields of a row, as the file spells them.
FlagStrs == {<<"False", "False", "False">>, <<"True", "False", "False">>,
             <<"true", "True", "True">>}

RawRows ==
    {[date |-> s, nom_vacances |-> n, vacances_zone_a |-> f[1],
      vacances_zone_b |-> f[2], vacances_zone_c |-> f[3]] :
        s \in DateStrs, n \in NameStrs, f \in FlagStrs}

RECURSIVE SeqsUpTo(_, _)
SeqsUpTo(S, n) ==
    IF n = 0 THEN {<<>>}
    ELSE LET shorter == SeqsUpTo(S, n - 1)
         IN shorter \cup {Append(q, x) : q \in {t \in shorter : Len(t) = n - 1}, x \in S}

\* Arguments of the queries: a date, or a value that is no datetime.date.
DateElem(d) == [isdate |-> TRUE, ymd |-> d]
NotADate == [isdate |-> FALSE, ymd |-> <<0, 0, 0>>]
QueryDates == {<<2021, 12, 31>>, <<2022, 6, 15>>, <<2023, 1, 1>>, <<2023, 1, 2>>}
QueryElems == {DateElem(d) : d \in QueryDates} \cup {NotADate}
Scalar(e) == [islist |-> FALSE, items |-> <<e>>]
List(es) == [islist |-> TRUE, items |-> es]
QueryArgs == {Scalar(e) : e \in QueryElems} \cup {List(es) : es \in SeqsUpTo(QueryElems, MaxSeq)}
ZoneIds == {"A", "B", "C", "a", "b", "c", "Z"}
QueryYears == {2020, 2021, 2022, 2023}

\* ------------------------------------------------------ datetime.date
Year(d) == d[1]
DateLT(a, b) ==
    \/ a[1] < b[1]
    \/ a[1] = b[1] /\ a[2] < b[2]
    \/ a[1] = b[1] /\ a[2] = b[2] /\ a[3] < b[3]
DateLE(a, b) == a = b \/ DateLT(a, b)
MinDate(S) == CHOOSE d \in S : \A e \in S : DateLE(d, e)
MaxDate(S) == CHOOSE d \in S : \A e \in S : DateLE(e, d)

\* ------------------------------- datetime.strptime(row["date"], "%Y-%m-%d")
DigitChars == {"0", "1", "2", "3", "4", "5", "6", "7", "8", "9"}
DigitVal(c) ==
    CASE c = "0" -> 0 [] c = "1" -> 1 [] c = "2" -> 2 [] c = "3" -> 3 [] c = "4" -> 4
      [] c = "5" -> 5 [] c = "6" -> 6 [] c = "7" -> 7 [] c = "8" -> 8 [] c = "9" -> 9

RECURSIVE ToInt(_)
ToInt(s) == IF s = <<>> THEN 0 ELSE 10 * ToInt(SubSeq(s, 1, Len(s) - 1)) + DigitVal(s[Len(s)])

IsLeap(y) == (y % 4 = 0 /\ y % 100 # 0) \/ y % 400 = 0
DaysInMonth(y, m) ==
    IF m = 2 THEN (IF IsLeap(y) THEN 29 ELSE 28)
    ELSE IF m \in {4, 6, 9, 11} THEN 30 ELSE 31

AllDigits(s) == \A k \in 1..Len(s) : s[k] \in DigitChars

strptime(s) ==
    LET dashes == {k \in 1..Len(s) : s[k] = "-"}
    IN IF Cardinality(dashes) # 2 THEN Raise("ValueError")
       ELSE LET p1 == CHOOSE k \in dashes : \A l \in dashes : k <= l
                p2 == CHOOSE k \in dashes : \A l \in dashes : l <= k
                ys == SubSeq(s, 1, p1 - 1)
                ms == SubSeq(s, p1 + 1, p2 - 1)
                ds == SubSeq(s, p2 + 1, Len(s))
            IN IF \/ ~AllDigits(ys) \/ ~AllDigits(ms) \/ ~AllDigits(ds)
                  \/ Len(ys) # 4 \/ Len(ms) \notin 1..2 \/ Len(ds) \notin 1..2
               THEN Raise("ValueError")
               ELSE LET y == ToInt(ys)
                        m == ToInt(ms)
                        d == ToInt(ds)
                    IN IF y >= 1 /\ m \in 1..12 /\ d >= 1 /\ d <= DaysInMonth(y, m)
                       THEN Return(<<y, m, d>>)
                       ELSE Raise("ValueError")

\* ------------------------------------------------------------- zone_key
SUPPORTED_ZONES == <<"A", "B", "C">>

Contains(list, x) == \E k \in 1..Len(list) : list[k] = x

\* str.lower() on the zone identifiers.
Lower(z) ==
    CASE z = "A" -> "a" [] z = "B" -> "b" [] z = "C" -> "c" [] z = "Z" -> "z" [] OTHER -> z

\* str.upper() on the zone identifiers.
Upper(z) ==
    CASE z = "a" -> "A" [] z = "b" -> "B" [] z = "c" -> "C" [] z = "z" -> "Z" [] OTHER -> z

\* zone_key, had it folded the case of its argument before the membership test.
zone_key_AnyCase(zone) ==
    IF ~Contains(SUPPORTED_ZONES, Upper(zone))
    THEN Raise("UnsupportedZoneException")
    ELSE Return("vacances_zone_" \o Lower(zone))

zone_key(zone) ==
    IF ~Contains(SUPPORTED_ZONES, zone)
    THEN Raise("UnsupportedZoneException")
    ELSE Return("vacances_zone_" \o Lower(zone))

\* ------------------------------------------------------------ load_data
\* The loop over SUPPORTED_ZONES that turns the zone fields of a row into
\* booleans and computes is_holiday.
RECURSIVE ZoneLoop(_, _, _)
ZoneLoop(row, is_holiday, k) ==
    IF k > Len(SUPPORTED_ZONES) THEN [row |-> row, is_holiday |-> is_holiday]
    ELSE LET key == zone_key(SUPPORTED_ZONES[k]).value
             flag == (row[key] = "True")
         IN ZoneLoop([row EXCEPT ![key] = flag], is_holiday \/ flag, k + 1)

\* self.data[date] = row
Store(index, date, row) ==
    [d \in (DOMAIN index) \cup {date} |-> IF d = date THEN row ELSE index[d]]

\* The loop of load_data without its `if is_holiday:` test.
ProcessRow_StoreAll(index, raw) ==
    LET parsed == strptime(raw.date)
    IN IF parsed.status # "ok" THEN parsed
       ELSE LET date == parsed.value
                conv == ZoneLoop([raw EXCEPT !.date = date], FALSE, 1)
            IN Return(Store(index, date, conv.row))

\* The loop of load_data, had it skipped a holiday row without a name.
ProcessRow_SkipUnnamed(index, raw) ==
    LET parsed == strptime(raw.date)
    IN IF parsed.status # "ok" THEN parsed
       ELSE LET date == parsed.value
                conv == ZoneLoop([raw EXCEPT !.date = date], FALSE, 1)
            IN IF conv.is_holiday /\ conv.row.nom_vacances # ""
               THEN Return(Store(index, date, conv.row))
               ELSE Return(index)

\* One turn of the loop of load_data on the index built so far.
ProcessRow(index, raw) ==
    LET parsed == strptime(raw.date)
    IN IF parsed.status # "ok" THEN parsed
       ELSE LET date == parsed.value
                conv == ZoneLoop([raw EXCEPT !.date = date], FALSE, 1)
            IN IF conv.is_holiday
               THEN IF conv.row.nom_vacances = ""
                    THEN Raise("ValueError")
                    ELSE Return(Store(index, date, conv.row))
               ELSE Return(index)

\* ------------------------------------------------------------ check_date
CheckOne(e) ==
    IF ~e.isdate THEN Raise("ValueError")
    ELSE IF Year(e.ymd) < min_year \/ Year(e.ymd) > max_year
         THEN Raise("UnsupportedYearException")
         ELSE Return("None")

\* check_date on a list, had it checked the type of every element before the
\* year of any.
CheckEach_TypesFirst(items, k) ==
    IF \E j \in k..Len(items) : ~items[j].isdate THEN Raise("ValueError")
    ELSE IF \E j \in k..Len(items) :
                Year(items[j].ymd) < min_year \/ Year(items[j].ymd) > max_year
         THEN Raise("UnsupportedYearException")
         ELSE Return("None")

\* for d in date: self.check_date(d)
RECURSIVE CheckEach(_, _)
CheckEach(items, k) ==
    IF k > Len(items) THEN Return("None")
    ELSE LET c == CheckOne(items[k])
         IN IF c.status # "ok" THEN c ELSE CheckEach(items, k + 1)

check_date(date) ==
    IF date.islist THEN CheckEach(date.items, 1) ELSE CheckOne(date.items[1])

\* ------------------------------------------------------------ is_holiday
\* is_holiday, had its list form tested the first date for every element.
is_holiday_FirstOnly(date) ==
    LET c == check_date(date)
    IN IF c.status # "ok" THEN c
       ELSE IF date.islist
            THEN Return([k \in 1..Len(date.items) |-> date.items[1].ymd \in DOMAIN data])
            ELSE Return(date.items[1].ymd \in DOMAIN data)

is_holiday(date) ==
    LET c == check_date(date)
    IN IF c.status # "ok" THEN c
       ELSE IF date.islist
            THEN Return([k \in 1..Len(date.items) |-> date.items[k].ymd \in DOMAIN data])
            ELSE Return(date.items[1].ymd \in DOMAIN data)

\* --------------------------------------------------- is_holiday_for_zone
\* The loop that appends one result per date; zone_key is reached only for
\* a date of the index.
RECURSIVE ZoneResults(_, _, _, _)
ZoneResults(items, zone, k, results) ==
    IF k > Len(items) THEN Return(results)
    ELSE IF items[k].ymd \notin DOMAIN data
         THEN ZoneResults(items, zone, k + 1, Append(results, FALSE))
         ELSE LET key == zone_key(zone)
              IN IF key.status # "ok" THEN key
                 ELSE ZoneResults(items, zone, k + 1,
                                  Append(results, data[items[k].ymd][key.value]))

is_holiday_for_zone(date, zone) ==
    LET c == check_date(date)
    IN IF c.status # "ok" THEN c
       ELSE IF date.islist THEN ZoneResults(date.items, zone, 1, <<>>)
            ELSE IF date.items[1].ymd \notin DOMAIN data THEN Return(FALSE)
                 ELSE LET key == zone_key(zone)
                      IN IF key.status # "ok" THEN key
                         ELSE Return(data[date.items[1].ymd][key.value])

\* ----------------------------------------------------- holidays_for_year
Restrict(f, S) == [k \in S |-> f[k]]

\* holidays_for_year, with its lower bound off by one.
holidays_for_year_OffByOne(year) ==
    IF year <= min_year \/ year > max_year
    THEN Raise("UnsupportedYearException")
    ELSE Return(Restrict(data, {k \in DOMAIN data : Year(k) = year}))

holidays_for_year(year) ==
    IF year < min_year \/ year > max_year
    THEN Raise("UnsupportedYearException")
    ELSE Return(Restrict(data, {k \in DOMAIN data : Year(k) = year}))

\* -------------------------------------------- holidays_for_year_and_zone
\* The comprehension calls is_holiday_for_zone once per entry of the year and
\* stops at the first call that raises. Every entry is a date of the index,
\* so the calls that raise all raise the same exception, whichever comes first.
\* holidays_for_year_and_zone, had it resolved the zone before filtering.
holidays_for_year_and_zone_Eager(year, zone) ==
    LET hy == holidays_for_year(year)
        key == zone_key(zone)
    IN IF hy.status # "ok" THEN hy
       ELSE IF key.status # "ok" THEN key
            ELSE Return(Restrict(hy.value, {k \in DOMAIN hy.value : hy.value[k][key.value]}))

holidays_for_year_and_zone(year, zone) ==
    LET hy == holidays_for_year(year)
    IN IF hy.status # "ok" THEN hy
       ELSE LET calls == [k \in DOMAIN hy.value |->
                            is_holiday_for_zone(Scalar(DateElem(k)), zone)]
                raising == {k \in DOMAIN calls : calls[k].status # "ok"}
            IN IF raising # {}
               THEN calls[CHOOSE k \in raising : TRUE]
               ELSE Return(Restrict(hy.value, {k \in DOMAIN calls : calls[k].value}))

\* ------------------------------------------------------ holidays_between
\* holidays_between, had it excluded its upper bound.
holidays_between_Exclusive(start_date, end_date) ==
    LET c1 == check_date(Scalar(start_date))
        c2 == check_date(Scalar(end_date))
    IN IF c1.status # "ok" THEN c1
       ELSE IF c2.status # "ok" THEN c2
            ELSE Return(Restrict(data, {k \in DOMAIN data :
                            DateLE(start_date.ymd, k) /\ DateLT(k, end_date.ymd)}))

holidays_between(start_date, end_date) ==
    LET c1 == check_date(Scalar(start_date))
        c2 == check_date(Scalar(end_date))
    IN IF c1.status # "ok" THEN c1
       ELSE IF c2.status # "ok" THEN c2
            ELSE Return(Restrict(data, {k \in DOMAIN data :
                            DateLE(start_date.ymd, k) /\ DateLE(k, end_date.ymd)}))

\* ------------------------------------------------------------ the machine
Init ==
    /\ rows \in SeqsUpTo(RawRows, MaxRows)
    /\ pc = "loading"
    /\ i = 1
    /\ data = <<>>
    /\ min_year = 0
    /\ max_year = 0
    /\ err = "none"
    /\ ret = NoCall

LoadRow ==
    /\ pc = "loading"
    /\ i <= Len(rows)
    /\ LET r == ProcessRow(data, rows[i])
       IN IF r.status = "ok"
          THEN /\ data' = r.value
               /\ i' = i + 1
               /\ UNCHANGED <<pc, err>>
          ELSE /\ pc' = "failed"
               /\ err' = r.status
               /\ UNCHANGED <<data, i>>
    /\ UNCHANGED <<rows, min_year, max_year, ret>>

\* The end of __init__: min() and max() of the keys, which raise ValueError
\* on an empty index.
FinishInit ==
    /\ pc = "loading"
    /\ i > Len(rows)
    /\ IF DOMAIN data = {}
       THEN /\ pc' = "failed"
            /\ err' = "ValueError"
            /\ UNCHANGED <<min_year, max_year>>
       ELSE /\ min_year' = Year(MinDate(DOMAIN data))
            /\ max_year' = Year(MaxDate(DOMAIN data))
            /\ pc' = "ready"
            /\ UNCHANGED err
    /\ UNCHANGED <<rows, i, data, ret>>

\* What a call leaves alone: none of the methods below assigns to self.
Fields == UNCHANGED <<data, min_year, max_year>>
Frame == Fields /\ UNCHANGED <<rows, pc, i, err>>

CallZoneKey ==
    /\ pc = "ready"
    /\ ret = NoCall
    /\ \E zone \in ZoneIds :
          ret' = Called("zone_key", [zone |-> zone], zone_key(zone))
    /\ Frame

CallCheckDate ==
    /\ pc = "ready"
    /\ ret = NoCall
    /\ \E date \in QueryArgs :
          ret' = Called("check_date", [date |-> date], check_date(date))
    /\ Frame

CallIsHoliday ==
    /\ pc = "ready"
    /\ ret = NoCall
    /\ \E date \in QueryArgs :
          ret' = Called("is_holiday", [date |-> date], is_holiday(date))
    /\ Frame

CallIsHolidayForZone ==
    /\ pc = "ready"
    /\ ret = NoCall
    /\ \E date \in QueryArgs, zone \in ZoneIds :
          ret' = Called("is_holiday_for_zone", [date |-> date, zone |-> zone],
                        is_holiday_for_zone(date, zone))
    /\ Frame

\* holidays_for_year, had it filtered self.data in place.
CallHolidaysForYear_InPlace ==
    /\ pc = "ready"
    /\ ret = NoCall
    /\ \E year \in QueryYears :
          LET r == holidays_for_year(year)
          IN /\ ret' = Called("holidays_for_year", [year |-> year], r)
             /\ data' = IF r.status = "ok" THEN r.value ELSE data
    /\ UNCHANGED <<rows, pc, i, min_year, max_year, err>>

CallHolidaysForYear ==
    /\ pc = "ready"
    /\ ret = NoCall
    /\ \E year \in QueryYears :
          ret' = Called("holidays_for_year", [year |-> year], holidays_for_year(year))
    /\ Frame

CallHolidaysForYearAndZone ==
    /\ pc = "ready"
    /\ ret = NoCall
    /\ \E year \in QueryYears, zone \in ZoneIds :
          ret' = Called("holidays_for_year_and_zone", [year |-> year, zone |-> zone],
                        holidays_for_year_and_zone(year, zone))
    /\ Frame

CallHolidaysBetween ==
    /\ pc = "ready"
    /\ ret = NoCall
    /\ \E start_date \in QueryElems, end_date \in QueryElems :
          ret' = Called("holidays_between",
                        [start_date |-> start_date, end_date |-> end_date],
                        holidays_between(start_date, end_date))
    /\ Frame

\* The caller has taken the outcome of its call (the value returned or the
\* exception raised) and is free to make the next one.
Resume ==
    /\ pc = "ready"
    /\ ret # NoCall
    /\ ret' = NoCall
    /\ Frame

Next ==
    \/ LoadRow
    \/ FinishInit
    \/ CallZoneKey
    \/ CallCheckDate
    \/ CallIsHoliday
    \/ CallIsHolidayForZone
    \/ CallHolidaysForYear
    \/ CallHolidaysForYearAndZone
    \/ CallHolidaysBetween
    \/ Resume

Spec == Init /\ [][Next]_vars

\* ================================================================ claims
IsTrueFlag(raw) ==
    raw.vacances_zone_a = "True" \/ raw.vacances_zone_b = "True" \/ raw.vacances_zone_c = "True"

\* The element is a date whose year lies in [min_year, max_year].
InRange(e) == e.isdate /\ min_year <= e.ymd[1] /\ e.ymd[1] <= max_year
AllInRange(date) == \A k \in 1..Len(date.items) : InRange(date.items[k])
Present(e) == e.ymd \in DOMAIN data
Abc == {"A", "B", "C"}

\* C1: after a successful construction every entry of the index has at least
\* one zone flag true and a non-empty holiday name, and is the conversion of
\* a row of the input with a zone field equal to "True": a row whose three
\* flags are false is never inserted.
C1_IndexEntriesAreHolidays ==
    pc = "ready" =>
        \A d \in DOMAIN data :
            /\ data[d].vacances_zone_a \/ data[d].vacances_zone_b \/ data[d].vacances_zone_c
            /\ data[d].nom_vacances # ""
            /\ \E k \in 1..Len(rows) :
                  /\ IsTrueFlag(rows[k])
                  /\ strptime(rows[k].date).status = "ok"
                  /\ strptime(rows[k].date).value = d
                  /\ data[d].date = d
                  /\ data[d].nom_vacances = rows[k].nom_vacances
                  /\ data[d].vacances_zone_a = (rows[k].vacances_zone_a = "True")
                  /\ data[d].vacances_zone_b = (rows[k].vacances_zone_b = "True")
                  /\ data[d].vacances_zone_c = (rows[k].vacances_zone_c = "True")

\* A constructed instance whose input held a row without any flag "True", on
\* a date that is not in the index.
C1_Witness ==
    /\ pc = "ready"
    /\ \E k \in 1..Len(rows) :
          /\ ~IsTrueFlag(rows[k])
          /\ strptime(rows[k].date).status = "ok"
          /\ strptime(rows[k].date).value \notin DOMAIN data

\* C2 (as claimed): is_holiday_for_zone raises UnsupportedZoneException for
\* every zone outside {A, B, C} and every date or (non-empty) list of dates
\* that passes check_date, whether or not the date is in the index.
C2_UnsupportedZoneAlwaysRaises ==
    (/\ ret.op = "is_holiday_for_zone"
     /\ ret.args.zone \notin Abc
     /\ ret.args.date.items # <<>>
     /\ AllInRange(ret.args.date))
        => ret.status = "UnsupportedZoneException"

CanonicalKey(zone) ==
    CASE zone \in {"A", "a"} -> "vacances_zone_a"
      [] zone \in {"B", "b"} -> "vacances_zone_b"
      [] zone \in {"C", "c"} -> "vacances_zone_c"

\* C3 (as claimed): zone_key accepts "a", "b", "c" like "A", "B", "C", with
\* the same key, and raises only for identifiers outside both spellings.
C3_ZoneKeyAnyCase ==
    ret.op = "zone_key" =>
        IF ret.args.zone \in {"A", "B", "C", "a", "b", "c"}
        THEN ret.status = "ok" /\ ret.value = CanonicalKey(ret.args.zone)
        ELSE ret.status = "UnsupportedZoneException"

\* C3 (amended): zone_key accepts exactly "A", "B", "C", yielding
\* "vacances_zone_a", "vacances_zone_b", "vacances_zone_c", and raises
\* UnsupportedZoneException for every other identifier, "a", "b", "c" included.
C3_ZoneKeyExactCase ==
    ret.op = "zone_key" =>
        IF ret.args.zone \in Abc
        THEN ret.status = "ok" /\ ret.value = CanonicalKey(ret.args.zone)
        ELSE ret.status = "UnsupportedZoneException"

\* zone_key("a") has raised.
C3_Witness ==
    /\ ret.op = "zone_key"
    /\ ret.args.zone = "a"
    /\ ret.status = "UnsupportedZoneException"

HasUnnamedHoliday == \E k \in 1..Len(rows) : IsTrueFlag(rows[k]) /\ rows[k].nom_vacances = ""

YearsOf(index) == {d[1] : d \in DOMAIN index}

ResultAt(k) == IF ret.args.date.islist THEN ret.value[k] ELSE ret.value

\* C6 (as claimed): for every date not in the index, is_holiday returns
\* false, and is_holiday_for_zone returns false for each zone of {A, B, C}, in
\* scalar form and element by element in list form.
C6_AbsentDateIsNoHoliday ==
    (/\ ret.op \in {"is_holiday", "is_holiday_for_zone"}
     /\ ret.op = "is_holiday_for_zone" => ret.args.zone \in Abc
     /\ \A k \in 1..Len(ret.args.date.items) : ret.args.date.items[k].isdate)
        => /\ ret.status = "ok"
           /\ \A k \in 1..Len(ret.args.date.items) :
                 ~Present(ret.args.date.items[k]) => ResultAt(k) = FALSE

\* C6 (amended): for every date not in the index whose year lies in
\* [min_year, max_year], is_holiday returns false, and is_holiday_for_zone
\* returns false for each zone of {A, B, C}; in list form, element by
\* element, when every element is a date of that range.
C6_AbsentDateInRangeIsNoHoliday ==
    (/\ ret.op \in {"is_holiday", "is_holiday_for_zone"}
     /\ ret.op = "is_holiday_for_zone" => ret.args.zone \in Abc
     /\ AllInRange(ret.args.date))
        => /\ ret.status = "ok"
           /\ \A k \in 1..Len(ret.args.date.items) :
                 ~Present(ret.args.date.items[k]) => ResultAt(k) = FALSE

\* is_holiday has answered for a list of a date of the index followed by a
\* date that is not in it.
C6_Witness ==
    /\ ret.op = "is_holiday"
    /\ ret.args.date.islist
    /\ Len(ret.args.date.items) = 2
    /\ Present(ret.args.date.items[1])
    /\ ~Present(ret.args.date.items[2])
    /\ ret.status = "ok"
    /\ ret.value = <<TRUE, FALSE>>

\* C7: for bounds that both pass check_date, holidays_between returns
\* exactly the entries of the index dated from start to end, both included:
\* none when start > end, at most the entry of that date when start = end.
C7_HolidaysBetweenInclusive ==
    (/\ ret.op = "holidays_between"
     /\ InRange(ret.args.start_date)
     /\ InRange(ret.args.end_date))
        => LET s == ret.args.start_date.ymd
               e == ret.args.end_date.ymd
           IN /\ ret.status = "ok"
              /\ DOMAIN ret.value = {d \in DOMAIN data : ~DateLT(d, s) /\ ~DateLT(e, d)}
              /\ \A d \in DOMAIN ret.value : ret.value[d] = data[d]
              /\ DateLT(e, s) => DOMAIN ret.value = {}
              /\ s = e => DOMAIN ret.value \subseteq {s}

\* holidays_between has returned the entries of both of its bounds.
C7_Witness ==
    /\ ret.op = "holidays_between"
    /\ ret.status = "ok"
    /\ ret.args.start_date.ymd # ret.args.end_date.ymd
    /\ DOMAIN ret.value = {ret.args.start_date.ymd, ret.args.end_date.ymd}

\* C8: holidays_for_year raises UnsupportedYearException for a year below
\* min_year or above max_year, returns exactly the entries of the index dated
\* in the year otherwise, and leaves the index as it was.
C8_HolidaysForYear ==
    /\ [](ret.op = "holidays_for_year" =>
            IF ret.args.year < min_year \/ ret.args.year > max_year
            THEN ret.status = "UnsupportedYearException"
            ELSE /\ ret.status = "ok"
                 /\ DOMAIN ret.value = {d \in DOMAIN data : d[1] = ret.args.year}
                 /\ \A d \in DOMAIN ret.value : ret.value[d] = data[d])
    /\ [][ret'.op = "holidays_for_year" => data' = data]_vars

\* holidays_for_year has returned the entries of min_year, and not those of
\* the other years of the index.
C8_Witness ==
    /\ ret.op = "holidays_for_year"
    /\ ret.args.year = min_year
    /\ ret.status = "ok"
    /\ DOMAIN ret.value # {}
    /\ DOMAIN ret.value # DOMAIN data

Invalid(items) == {k \in 1..Len(items) : ~InRange(items[k])}
FirstInvalid(items) == CHOOSE k \in Invalid(items) : \A j \in Invalid(items) : k <= j
ErrorOf(e) == IF e.isdate THEN "UnsupportedYearException" ELSE "ValueError"

\* C9: check_date, is_holiday and is_holiday_for_zone on a list holding an
\* invalid element raise the error of the first invalid element in list
\* order (ValueError for a value that is no date, UnsupportedYearException
\* for a date outside [min_year, max_year]) and return no result.
C9_FirstInvalidElementDecides ==
    (/\ ret.op \in {"check_date", "is_holiday", "is_holiday_for_zone"}
     /\ ret.args.date.islist
     /\ Invalid(ret.args.date.items) # {})
        => /\ ret.status = ErrorOf(ret.args.date.items[FirstInvalid(ret.args.date.items)])
           /\ ret.value = "none"

\* is_holiday_for_zone has raised for the year of the first element of a list
\* whose second element is no date.
C9_Witness ==
    /\ ret.op = "is_holiday_for_zone"
    /\ ret.args.date.islist
    /\ Len(ret.args.date.items) = 2
    /\ ret.args.date.items[1].isdate
    /\ ~ret.args.date.items[2].isdate
    /\ ret.status = "UnsupportedYearException"

\* C10 (as claimed): holidays_for_year_and_zone raises
\* UnsupportedZoneException for every year of [min_year, max_year] and every
\* zone outside {A, B, C}, also for a year without entries in the index.
C10_UnsupportedZoneAnyYear ==
    (/\ ret.op = "holidays_for_year_and_zone"
     /\ min_year <= ret.args.year
     /\ ret.args.year <= max_year
     /\ ret.args.zone \notin Abc)
        => ret.status = "UnsupportedZoneException"

\* C10 (amended): for a year of [min_year, max_year] and a zone outside
\* {A, B, C}, holidays_for_year_and_zone raises UnsupportedZoneException when
\* the index has an entry in that year, and returns an empty mapping when it
\* has none.
C10_UnsupportedZoneYearWithEntries ==
    (/\ ret.op = "holidays_for_year_and_zone"
     /\ min_year <= ret.args.year
     /\ ret.args.year <= max_year
     /\ ret.args.zone \notin Abc)
        => IF ret.args.year \in YearsOf(data)
           THEN ret.status = "UnsupportedZoneException"
           ELSE ret.status = "ok" /\ DOMAIN ret.value = {}

\* holidays_for_year_and_zone has raised for zone "Z" in a year with entries.
C10_Witness ==
    /\ ret.op = "holidays_for_year_and_zone"
    /\ ret.args.zone = "Z"
    /\ ret.args.year \in YearsOf(data)
    /\ ret.status = "UnsupportedZoneException"
====
